---- MODULE Spec2Model ----
(***************************************************************************)
(* Merge-compaction task (package jobs, mergeObjectsTask) of a column      *)
(* store: construction, PrepareData, Execute, HandleMergeEntryInTxn, with  *)
(* the transaction / catalog and the sort-merge-write engine it talks to.  *)
(***************************************************************************)
EXTENDS Integers, Sequences, FiniteSets, TLC

(* ------------------------------ bounds --------------------------------- *)

\* longest source-object list handed to NewMergeObjectsTask
MaxSrc == 2
\* how many times the holder of PrepareData's release function may call it
MaxReleaseCalls == 2
\* schema.BlockMaxRows of the table
BlockMaxRows == 2
\* blocks the writer puts into one output object
ObjMaxBlks == 1
\* batches the input of the index-build operator delivers before it ends
MaxRecv == 2
\* rows of the largest input batch of the index-build operator
MaxBatchRows == 2
\* largest RuntimeFilterSenders[0].Spec.UpperLimit
MaxUpperLimit == 2

(* ------------------------- the stored table ---------------------------- *)

Tasks == {1, 2}

Objs == {1, 2, 3, 4}

DbID == "db"

TableID == "tbl"

\* The blocks of each stored object: the rows (their sort-key column) and the
\* delete mask (positions of tombstoned rows).  Object 3 is fully tombstoned,
\* object 4 has no block.
ObjBlocks(o) ==
    CASE o = 1 -> << [rows |-> <<2, 1>>, del |-> {}], [rows |-> <<1, 3>>, del |-> {1}] >>
      [] o = 2 -> << [rows |-> <<3, 2>>, del |-> {2}] >>
      [] o = 3 -> << [rows |-> <<2>>, del |-> {1}] >>
      [] OTHER -> << >>

BlockCnt(o) == Len(ObjBlocks(o))

\* Lists of distinct objects of length 0..MaxSrc
SrcLists ==
    { s \in UNION { [1..n -> Objs] : n \in 0..MaxSrc } :
        \A i, j \in 1..Len(s) : i /= j => s[i] /= s[j] }

Range(s) == { s[i] : i \in 1..Len(s) }

\* the objects the two concurrent tasks of SpecPair choose from
PairObjs == {1, 2, 3}

(* ------------------------------ state ---------------------------------- *)

VARIABLES
    schema,             \* the table's schema: [HasPK, HasSortKey]
    pc,                 \* where each task is
    task,               \* the task pointer NewMergeObjectsTask returned
    retErr,             \* the error the last NewMergeObjectsTask / Execute returned
    panicMsg,           \* the panic a task died with ("" when none)
    mergedObjs,         \* task.mergedObjs
    mergedObjsHandle,   \* task.mergedObjsHandle
    mergedBlkCnt,       \* task.mergedBlkCnt
    totalMergedBlkCnt,  \* task.totalMergedBlkCnt
    catalogCalls,       \* GetDatabaseByID / GetRelationByID / GetObject calls made
    views,              \* PrepareData's views: NilView or the block viewed, per global offset
    closeCnt,           \* Close calls each view has received
    readCnt,            \* GetColumnDataByIds calls PrepareData has made
    readLog,            \* the <<object, block>> each call asked for
    prepRet,            \* what PrepareData returned
    releaseCalls,       \* calls of the returned release function
    ctxCancelled,       \* ctx.Done() of the context given to Execute
    phaseDesc,          \* Execute's phaseDesc
    phaseLog,           \* the phases that have started, in order
    raised,             \* the error a step raised and the phase it was raised in
    engineArgs,         \* sortkeyPos and blkMaxRows Execute gave DoMergeAndWrite
    writerCalls,        \* the arguments of each writer-factory call
    commitEntry,        \* task.commitEntry
    createdBObjs,       \* task.createdBObjs
    hnd,                \* HandleMergeEntryInTxn's locals: mergedObjs, createdObjs
    txn,                \* each task's transaction: state and write set
    catalog             \* the committed catalog of the table

\* The index-build operator (colexec/indexbuild): the operator's argument,
\* its container, the process it runs in and the runtime filter channel.
VARIABLES rfSpec, idxVecs, idxPc, isMerge, ctrState, ctrBatch, callRet,
          pendingFilter, chanMsgs, chanReady, procCtxDone, idxRecv, idxInPuts,
          accPuts, idxEarlyStop, idxSawNil, idxErrs, idxRowsAtFilter

idxVars == << rfSpec, idxVecs, idxPc, isMerge, ctrState, ctrBatch, callRet,
              pendingFilter, chanMsgs, chanReady, procCtxDone, idxRecv,
              idxInPuts, accPuts, idxEarlyStop, idxSawNil, idxErrs,
              idxRowsAtFilter >>

mergeVars == << schema, pc, task, retErr, panicMsg, mergedObjs, mergedObjsHandle,
           mergedBlkCnt, totalMergedBlkCnt, catalogCalls, views, closeCnt,
           readCnt, readLog, prepRet, releaseCalls, ctxCancelled, phaseDesc,
           phaseLog, raised, engineArgs, writerCalls, commitEntry,
           createdBObjs, hnd, txn, catalog >>

vars == << mergeVars, idxVars >>

taskVars == << task, retErr, panicMsg, mergedObjs, mergedObjsHandle,
               mergedBlkCnt, totalMergedBlkCnt, catalogCalls >>

prepVars == << views, closeCnt, readCnt, readLog, prepRet, releaseCalls >>

execVars == << phaseDesc, phaseLog, raised, engineArgs, writerCalls,
               commitEntry, createdBObjs >>

NoPrep == [batches |-> << >>, dels |-> << >>, release |-> FALSE, err |-> "nil"]

NoEntry == [DbID |-> "", TableID |-> "", MergedObjs |-> << >>,
            CreatedObjectStats |-> << >>, Booking |-> << >>]

NoTxn == [state |-> "none", dropped |-> << >>, created |-> << >>, log |-> << >>]

\* a nil *batch.Batch
NilBatch == [nil |-> TRUE, rows |-> 0]

NoCall == [Status |-> "", Batch |-> "nil", Err |-> "nil"]

NoFilter == [Typ |-> "", Card |-> 0]

\* the index-build operator before Prepare, its inputs left open
IdxNew ==
    /\ idxPc = "new"
    /\ isMerge = FALSE
    /\ ctrState = "ReceiveBatch"
    /\ ctrBatch = NilBatch
    /\ callRet = NoCall
    /\ pendingFilter = NoFilter
    /\ chanMsgs = << >>
    /\ chanReady = FALSE
    /\ procCtxDone = FALSE
    /\ idxRecv = 0
    /\ idxInPuts = << >>
    /\ accPuts = 0
    /\ idxEarlyStop = FALSE
    /\ idxSawNil = FALSE
    /\ idxErrs = {}
    /\ idxRowsAtFilter = 0

\* no index-build operator in the process
IdxQuiet ==
    /\ rfSpec = [Expr |-> FALSE, UpperLimit |-> 0]
    /\ idxVecs = 1
    /\ IdxNew

MergeInit ==
    /\ schema \in [HasPK : BOOLEAN, HasSortKey : BOOLEAN]
    /\ pc = [t \in Tasks |-> "idle"]
    /\ task = [t \in Tasks |-> "nil"]
    /\ retErr = [t \in Tasks |-> "nil"]
    /\ panicMsg = [t \in Tasks |-> ""]
    /\ mergedObjs = [t \in Tasks |-> << >>]
    /\ mergedObjsHandle = [t \in Tasks |-> << >>]
    /\ mergedBlkCnt = [t \in Tasks |-> << >>]
    /\ totalMergedBlkCnt = [t \in Tasks |-> 0]
    /\ catalogCalls = [t \in Tasks |-> 0]
    /\ views = [t \in Tasks |-> << >>]
    /\ closeCnt = [t \in Tasks |-> << >>]
    /\ readCnt = [t \in Tasks |-> 0]
    /\ readLog = [t \in Tasks |-> << >>]
    /\ prepRet = [t \in Tasks |-> NoPrep]
    /\ releaseCalls = [t \in Tasks |-> 0]
    /\ ctxCancelled = [t \in Tasks |-> FALSE]
    /\ phaseDesc = [t \in Tasks |-> ""]
    /\ phaseLog = [t \in Tasks |-> << >>]
    /\ raised = [t \in Tasks |-> [err |-> "nil", phase |-> ""]]
    /\ engineArgs = [t \in Tasks |-> [sortkeyPos |-> -1, blkMaxRows |-> 0]]
    /\ writerCalls = [t \in Tasks |-> << >>]
    /\ commitEntry = [t \in Tasks |-> NoEntry]
    /\ createdBObjs = [t \in Tasks |-> << >>]
    /\ hnd = [t \in Tasks |-> [mergedObjs |-> << >>, createdObjs |-> << >>]]
    /\ txn = [t \in Tasks |-> NoTxn]
    /\ catalog = [deleted |-> {}, created |-> {}, log |-> {}]

Init == MergeInit /\ IdxQuiet

(* ------------------------ NewMergeObjectsTask --------------------------- *)

\* The loop of the constructor storing the running total after adding the
\* object's own blocks
RECURSIVE PrefixBlkCntInclusive(_, _)
PrefixBlkCntInclusive(objs, i) ==
    IF i < 1 THEN 0
    ELSE IF i > Len(objs) THEN PrefixBlkCntInclusive(objs, Len(objs))
    ELSE PrefixBlkCntInclusive(objs, i - 1) + BlockCnt(objs[i])

\* task.mergedBlkCnt[i] = the block count of the objects before object i
RECURSIVE PrefixBlkCnt(_, _)
PrefixBlkCnt(objs, i) ==
    IF i <= 1 THEN 0 ELSE PrefixBlkCnt(objs, i - 1) + BlockCnt(objs[i - 1])

\* Whether the transaction of task t can resolve object o: an object that a
\* committed merge has soft-deleted is not found.
GetObjectFails(o) == \E d \in catalog.deleted : d.obj = o

\* The first source object whose GetObject fails (0 when none does); inj is
\* an injected lookup failure (0 for none).
FirstBadObj(objs, inj) ==
    LET bad == { i \in 1..Len(objs) : i = inj \/ GetObjectFails(objs[i]) }
    IN  IF bad = {} THEN 0 ELSE CHOOSE i \in bad : \A j \in bad : i <= j

\* The constructor without its test of the list
EmptyNeverPanics(objs) == FALSE

\* len(mergedObjs) == 0: the constructor panics
EmptyPanics(objs) == Len(objs) = 0

\* NewMergeObjectsTask(ctx, txn, mergedObjs, rt); fail names the lookup that
\* fails ("none", "db", "rel") and inj the source object whose lookup fails.
NewMergeObjectsTask(t, objs, fail, inj) ==
    /\ pc[t] = "idle"
    /\ txn' = [txn EXCEPT ![t].state = "active"]
    /\ UNCHANGED << idxVars, schema, prepVars, execVars, ctxCancelled, hnd, catalog >>
    /\ IF EmptyPanics(objs)
       THEN /\ pc' = [pc EXCEPT ![t] = "panicked"]
            /\ panicMsg' = [panicMsg EXCEPT ![t] = "empty mergedObjs"]
            /\ UNCHANGED << task, retErr, mergedObjs, mergedObjsHandle,
                            mergedBlkCnt, totalMergedBlkCnt, catalogCalls >>
       ELSE /\ mergedObjs' = [mergedObjs EXCEPT ![t] = objs]
            /\ mergedBlkCnt' = [mergedBlkCnt EXCEPT ![t] =
                                  [i \in 1..Len(objs) |-> PrefixBlkCnt(objs, i)]]
            /\ totalMergedBlkCnt' = [totalMergedBlkCnt EXCEPT ![t] =
                                       PrefixBlkCnt(objs, Len(objs) + 1)]
            /\ UNCHANGED panicMsg
            /\ LET bad == FirstBadObj(objs, inj) IN
               CASE fail = "db" ->
                      /\ catalogCalls' = [catalogCalls EXCEPT ![t] = @ + 1]
                      /\ task' = [task EXCEPT ![t] = "task"]
                      /\ retErr' = [retErr EXCEPT ![t] = "ErrNoDatabase"]
                      /\ pc' = [pc EXCEPT ![t] = "ctor_failed"]
                      /\ UNCHANGED mergedObjsHandle
                 [] fail = "rel" ->
                      /\ catalogCalls' = [catalogCalls EXCEPT ![t] = @ + 2]
                      /\ task' = [task EXCEPT ![t] = "task"]
                      /\ retErr' = [retErr EXCEPT ![t] = "ErrNoRelation"]
                      /\ pc' = [pc EXCEPT ![t] = "ctor_failed"]
                      /\ UNCHANGED mergedObjsHandle
                 [] fail = "none" /\ bad > 0 ->
                      /\ catalogCalls' = [catalogCalls EXCEPT ![t] = @ + 2 + bad]
                      /\ task' = [task EXCEPT ![t] = "nil"]
                      /\ retErr' = [retErr EXCEPT ![t] = "ErrNoObject"]
                      /\ mergedObjsHandle' = [mergedObjsHandle EXCEPT ![t] =
                                                SubSeq(objs, 1, bad - 1)]
                      /\ pc' = [pc EXCEPT ![t] = "ctor_failed"]
                 [] OTHER ->
                      /\ catalogCalls' = [catalogCalls EXCEPT ![t] = @ + 2 + Len(objs)]
                      /\ task' = [task EXCEPT ![t] = "task"]
                      /\ retErr' = [retErr EXCEPT ![t] = "nil"]
                      /\ mergedObjsHandle' = [mergedObjsHandle EXCEPT ![t] = objs]
                      /\ pc' = [pc EXCEPT ![t] = "built"]

Construct(t) ==
    \E objs \in SrcLists, fail \in {"none", "db", "rel"}, inj \in 0..MaxSrc :
        /\ inj <= Len(objs)
        /\ fail /= "none" => inj = 0
        /\ NewMergeObjectsTask(t, objs, fail, inj)

(* ------------------------------ PrepareData ---------------------------- *)

\* a nil *containers.BlockView
NilView == [obj |-> 0, blk |-> -1]

\* schema.GetSingleSortKeyIdx()
SortKeyIdx == 0

\* The loops of PrepareData asking every object for its block 0
LoopPosFirstBlock(t, k) ==
    LET n == Len(mergedObjsHandle[t])
        i == CHOOSE x \in 1..n :
                 /\ mergedBlkCnt[t][x] <= k
                 /\ k < (IF x /= n THEN mergedBlkCnt[t][x + 1] ELSE totalMergedBlkCnt[t])
    IN  [obj |-> mergedObjsHandle[t][i], blk |-> 0]

\* The object index i and block offset j the loops of PrepareData are at when
\* they fill views[k] (k counted from 0): minBlockOffset <= k < maxBlockOffset.
LoopPos(t, k) ==
    LET n == Len(mergedObjsHandle[t])
        maxBlockOffset(i) == IF i /= n THEN mergedBlkCnt[t][i + 1]
                                       ELSE totalMergedBlkCnt[t]
        minBlockOffset(i) == mergedBlkCnt[t][i]
        i == CHOOSE x \in 1..n : minBlockOffset(x) <= k /\ k < maxBlockOffset(x)
    IN  [obj |-> mergedObjsHandle[t][i], blk |-> (k - minBlockOffset(i)) % 65536]

\* releaseF: Close every view that is not nil
ReleaseF(t) == [k \in 1..Len(views[t]) |->
                   IF views[t][k] /= NilView THEN closeCnt[t][k] + 1
                                             ELSE closeCnt[t][k]]

\* The deferred function with its test inverted
DeferReleaseOnNil(t, err) == IF err = "nil" THEN ReleaseF(t) ELSE closeCnt[t]

\* The deferred function of PrepareData: releaseF() when err is not nil
DeferRelease(t, err) == IF err /= "nil" THEN ReleaseF(t) ELSE closeCnt[t]

\* What PrepareData returns when a read fails
PrepareDataError(err) == [batches |-> << >>, dels |-> << >>, release |-> FALSE, err |-> err]

\* What PrepareData returns once every view is read: batch k and mask k are
\* those of views[k]
PrepareDataOk(t) == [batches |-> views[t], dels |-> views[t], release |-> TRUE, err |-> "nil"]

\* One pass of the inner loop of PrepareData: GetColumnDataByIds for the next
\* global offset, with context.Background().
ReadBlock(t, ok) ==
    /\ pc[t] = "reading"
    /\ readCnt[t] < totalMergedBlkCnt[t]
    /\ LET k == readCnt[t] IN
       /\ readCnt' = [readCnt EXCEPT ![t] = k + 1]
       /\ readLog' = [readLog EXCEPT ![t] = Append(@, LoopPos(t, k))]
       /\ IF ok
          THEN /\ views' = [views EXCEPT ![t][k + 1] = LoopPos(t, k)]
               /\ UNCHANGED << closeCnt, prepRet, raised, pc >>
          ELSE /\ closeCnt' = [closeCnt EXCEPT ![t] = DeferRelease(t, "ErrRead")]
               /\ prepRet' = [prepRet EXCEPT ![t] = PrepareDataError("ErrRead")]
               /\ raised' = [raised EXCEPT ![t] = [err |-> "ErrRead", phase |-> phaseDesc[t]]]
               /\ pc' = [pc EXCEPT ![t] = "engine_ret"]
               /\ UNCHANGED views
    /\ UNCHANGED << idxVars, schema, taskVars, releaseCalls, ctxCancelled, phaseDesc, phaseLog,
                    engineArgs, writerCalls, commitEntry, createdBObjs, hnd, txn, catalog >>

\* The second loop of PrepareData builds one batch per view; it panics when a
\* view has another number of columns than attrs (mismatch), and the deferred
\* function then sees err = nil.
BuildBatches(t, mismatch) ==
    /\ pc[t] = "reading"
    /\ readCnt[t] = totalMergedBlkCnt[t]
    /\ mismatch => totalMergedBlkCnt[t] > 0
    /\ IF mismatch
       THEN /\ pc' = [pc EXCEPT ![t] = "panicked"]
            /\ panicMsg' = [panicMsg EXCEPT ![t] = "mismatch"]
            /\ closeCnt' = [closeCnt EXCEPT ![t] = DeferRelease(t, "nil")]
            /\ UNCHANGED << prepRet, phaseLog >>
       ELSE /\ pc' = [pc EXCEPT ![t] = "merging"]
            /\ prepRet' = [prepRet EXCEPT ![t] = PrepareDataOk(t)]
            /\ closeCnt' = [closeCnt EXCEPT ![t] = DeferRelease(t, "nil")]
            /\ phaseLog' = [phaseLog EXCEPT ![t] = Append(@, "MergeAndWrite")]
            /\ UNCHANGED panicMsg
    /\ UNCHANGED << idxVars, schema, task, retErr, mergedObjs, mergedObjsHandle, mergedBlkCnt,
                    totalMergedBlkCnt, catalogCalls, views, readCnt, readLog,
                    releaseCalls, ctxCancelled, phaseDesc, raised, engineArgs,
                    writerCalls, commitEntry, createdBObjs, hnd, txn, catalog >>

\* The holder of the release function calls it
CallRelease(t) ==
    /\ pc[t] = "releasing"
    /\ prepRet[t].release
    /\ releaseCalls[t] < MaxReleaseCalls
    /\ releaseCalls' = [releaseCalls EXCEPT ![t] = @ + 1]
    /\ closeCnt' = [closeCnt EXCEPT ![t] = ReleaseF(t)]
    /\ UNCHANGED << idxVars, schema, pc, taskVars, views, readCnt, readLog, prepRet,
                    ctxCancelled, execVars, hnd, txn, catalog >>

(* -------------------- the sort-merge-write engine ----------------------- *)

\* The rows of batch k that mask k does not tombstone, each with its source
\* coordinates
RECURSIVE VisibleFrom(_, _, _, _)
VisibleFrom(rows, del, k, r) ==
    IF r > Len(rows) THEN << >>
    ELSE (IF r \in del THEN << >> ELSE << [key |-> rows[r], blk |-> k, row |-> r] >>)
         \o VisibleFrom(rows, del, k, r + 1)

BlockOf(ref) == ObjBlocks(ref.obj)[ref.blk + 1]

RECURSIVE ConcatVisible(_, _, _)
ConcatVisible(batches, dels, k) ==
    IF k > Len(batches) THEN << >>
    ELSE VisibleFrom(BlockOf(batches[k]).rows, BlockOf(dels[k]).del, k - 1, 1)
         \o ConcatVisible(batches, dels, k + 1)

\* stable insertion of x into a sequence ordered by key
RECURSIVE InsertByKey(_, _)
InsertByKey(s, x) ==
    IF s = << >> THEN << x >>
    ELSE IF s[Len(s)].key <= x.key THEN Append(s, x)
    ELSE Append(InsertByKey(SubSeq(s, 1, Len(s) - 1), x), s[Len(s)])

RECURSIVE SortByKey(_)
SortByKey(s) ==
    IF s = << >> THEN << >>
    ELSE InsertByKey(SortByKey(SubSeq(s, 1, Len(s) - 1)), s[Len(s)])

\* cut a sequence into pieces of at most n elements
RECURSIVE Chunks(_, _)
Chunks(s, n) ==
    IF s = << >> THEN << >>
    ELSE IF Len(s) <= n THEN << s >>
    ELSE << SubSeq(s, 1, n) >> \o Chunks(SubSeq(s, n + 1, Len(s)), n)

\* the identifier the writer gives the n-th object a task creates
NewObjId(t, n) == 100 * t + n

\* The engine's output for the given batches and masks: the rows in output
\* order, sorted when a sort key is designated
MergedRows(batches, dels, sortkeyPos) ==
    LET all == ConcatVisible(batches, dels, 1)
    IN  IF sortkeyPos >= 0 THEN SortByKey(all) ELSE all

\* the statistics of the objects written: the keys of each block of each object
CreatedStats(t, rows, blkMaxRows) ==
    LET keys == [i \in 1..Len(rows) |-> rows[i].key]
        objs == Chunks(Chunks(keys, blkMaxRows), ObjMaxBlks)
    IN  [n \in 1..Len(objs) |-> [id |-> NewObjId(t, n), blocks |-> objs[n]]]

\* the booking: the source coordinates of each output row, in output order
BookingOf(rows) == [i \in 1..Len(rows) |-> << rows[i].blk, rows[i].row >>]

(* -------------------------------- Execute ------------------------------- *)

\* PrepareCommitEntry leaving out the last source object
PrepareCommitEntryShort(t) ==
    [DbID |-> DbID, TableID |-> TableID,
     MergedObjs |-> SubSeq(mergedObjs[t], 1, Len(mergedObjs[t]) - 1),
     CreatedObjectStats |-> << >>, Booking |-> << >>]

\* PrepareCommitEntry
PrepareCommitEntry(t) ==
    [DbID |-> DbID, TableID |-> TableID, MergedObjs |-> mergedObjs[t],
     CreatedObjectStats |-> << >>, Booking |-> << >>]

\* The arguments PrepareNewWriterFunc gives the writer factory
PrepareNewWriterFunc ==
    [sortkeyPos  |-> IF schema.HasPK THEN SortKeyIdx
                     ELSE IF schema.HasSortKey THEN SortKeyIdx ELSE -1,
     sortkeyIsPK |-> schema.HasPK]

\* The sortkeyPos Execute hands to DoMergeAndWrite
ExecSortKeyPos == IF schema.HasSortKey THEN SortKeyIdx ELSE -1

\* Execute up to the call of DoMergeAndWrite, which asks the task for its
\* commit entry and its data.
ExecuteBegin(t) ==
    /\ pc[t] = "built"
    /\ pc' = [pc EXCEPT ![t] = "reading"]
    /\ phaseDesc' = [phaseDesc EXCEPT ![t] = "1-DoMergeAndWrite"]
    /\ engineArgs' = [engineArgs EXCEPT ![t] =
                        [sortkeyPos |-> ExecSortKeyPos, blkMaxRows |-> BlockMaxRows]]
    /\ commitEntry' = [commitEntry EXCEPT ![t] = PrepareCommitEntry(t)]
    /\ phaseLog' = [phaseLog EXCEPT ![t] = Append(@, "PrepareData")]
    /\ views' = [views EXCEPT ![t] = [k \in 1..totalMergedBlkCnt[t] |-> NilView]]
    /\ closeCnt' = [closeCnt EXCEPT ![t] = [k \in 1..totalMergedBlkCnt[t] |-> 0]]
    /\ UNCHANGED << idxVars, schema, taskVars, readCnt, readLog, prepRet, releaseCalls,
                    ctxCancelled, raised, writerCalls, createdBObjs, hnd, txn, catalog >>

\* The engine merges and writes; it sees a cancelled context at its next
\* suspension point, and a write may fail.
MergeAndWrite(t, fail) ==
    /\ pc[t] = "merging"
    /\ pc' = [pc EXCEPT ![t] = "releasing"]
    /\ IF ctxCancelled[t] \/ fail
       THEN /\ raised' = [raised EXCEPT ![t] =
                            [err |-> IF ctxCancelled[t] THEN "ErrCanceled" ELSE "ErrWrite",
                             phase |-> phaseDesc[t]]]
            /\ UNCHANGED << commitEntry, writerCalls >>
       ELSE LET rows == MergedRows(prepRet[t].batches, prepRet[t].dels,
                                   engineArgs[t].sortkeyPos)
                stats == CreatedStats(t, rows, engineArgs[t].blkMaxRows)
            IN  /\ commitEntry' = [commitEntry EXCEPT
                                     ![t].CreatedObjectStats = stats,
                                     ![t].Booking = BookingOf(rows)]
                /\ writerCalls' = [writerCalls EXCEPT ![t] =
                                     [n \in 1..Len(stats) |-> PrepareNewWriterFunc]]
                /\ UNCHANGED raised
    /\ UNCHANGED << idxVars, schema, taskVars, prepVars, ctxCancelled, phaseDesc, phaseLog,
                    engineArgs, createdBObjs, hnd, txn, catalog >>

\* Execute going on to phase 2 whatever DoMergeAndWrite returned
AfterDoMergeAndWriteIgnoringErr(t) ==
    /\ \/ pc[t] = "engine_ret"
       \/ pc[t] = "releasing" /\ releaseCalls[t] >= 1
    /\ phaseDesc' = [phaseDesc EXCEPT ![t] = "2-HandleMergeEntryInTxn"]
    /\ phaseLog' = [phaseLog EXCEPT ![t] = Append(@, "HandleMergeEntryInTxn")]
    /\ pc' = [pc EXCEPT ![t] = "h_open"]
    /\ UNCHANGED << idxVars, schema, taskVars, prepVars, ctxCancelled, raised,
                    engineArgs, writerCalls, commitEntry, createdBObjs, hnd, txn, catalog >>

\* DoMergeAndWrite returns to Execute: an error ends Execute with that error,
\* otherwise phase 2 starts.
AfterDoMergeAndWrite(t) ==
    /\ \/ pc[t] = "engine_ret"
       \/ pc[t] = "releasing" /\ releaseCalls[t] >= 1
    /\ IF raised[t].err /= "nil"
       THEN /\ retErr' = [retErr EXCEPT ![t] = raised[t].err]
            /\ pc' = [pc EXCEPT ![t] = "done"]
            /\ UNCHANGED << phaseDesc, phaseLog >>
       ELSE /\ phaseDesc' = [phaseDesc EXCEPT ![t] = "2-HandleMergeEntryInTxn"]
            /\ phaseLog' = [phaseLog EXCEPT ![t] = Append(@, "HandleMergeEntryInTxn")]
            /\ pc' = [pc EXCEPT ![t] = "h_open"]
            /\ UNCHANGED retErr
    /\ UNCHANGED << idxVars, schema, task, panicMsg, mergedObjs, mergedObjsHandle, mergedBlkCnt,
                    totalMergedBlkCnt, catalogCalls, prepVars, ctxCancelled, raised,
                    engineArgs, writerCalls, commitEntry, createdBObjs, hnd, txn, catalog >>

\* the context given to Execute is cancelled
Cancel(t) ==
    /\ pc[t] \in {"reading", "merging", "releasing", "h_open", "h_drop", "h_create"}
    /\ ~ctxCancelled[t]
    /\ ctxCancelled' = [ctxCancelled EXCEPT ![t] = TRUE]
    /\ UNCHANGED << idxVars, schema, pc, taskVars, prepVars, execVars, hnd, txn, catalog >>

(* ------------------------- HandleMergeEntryInTxn ------------------------ *)

\* The transaction manager's write-write conflict check on a soft-delete: the
\* object is already soft-deleted by a committed transaction or by another
\* transaction that is still active.
WWConflict(t, o) ==
    \/ \E d \in catalog.deleted : d.obj = o
    \/ \E u \in Tasks \ {t} : txn[u].state = "active" /\ o \in Range(txn[u].dropped)

\* HandleMergeEntryInTxn leaves with an error
HandleFail(t, err) ==
    /\ raised' = [raised EXCEPT ![t] = [err |-> err, phase |-> phaseDesc[t]]]
    /\ pc' = [pc EXCEPT ![t] = "h_ret"]

\* txn.GetDatabaseByID and database.GetRelationByID
HandleOpen(t, fail) ==
    /\ pc[t] = "h_open"
    /\ hnd' = [hnd EXCEPT ![t] = [mergedObjs |-> << >>, createdObjs |-> << >>]]
    /\ CASE fail = "db" ->
              /\ catalogCalls' = [catalogCalls EXCEPT ![t] = @ + 1]
              /\ HandleFail(t, "ErrNoDatabase")
         [] fail = "rel" ->
              /\ catalogCalls' = [catalogCalls EXCEPT ![t] = @ + 2]
              /\ HandleFail(t, "ErrNoRelation")
         [] OTHER ->
              /\ catalogCalls' = [catalogCalls EXCEPT ![t] = @ + 2]
              /\ pc' = [pc EXCEPT ![t] = "h_drop"]
              /\ UNCHANGED raised
    /\ UNCHANGED << idxVars, schema, task, retErr, panicMsg, mergedObjs, mergedObjsHandle,
                    mergedBlkCnt, totalMergedBlkCnt, prepVars, ctxCancelled, phaseDesc,
                    phaseLog, engineArgs, writerCalls, commitEntry, createdBObjs,
                    txn, catalog >>

\* One pass of the loop over entry.MergedObjs, with the soft-delete error
\* dropped instead of returned
HandleDropIgnoringErr(t, fail) ==
    /\ pc[t] = "h_drop"
    /\ LET i == Len(hnd[t].mergedObjs) + 1
           o == commitEntry[t].MergedObjs[i]
           last == i = Len(commitEntry[t].MergedObjs)
       IN  /\ catalogCalls' = [catalogCalls EXCEPT ![t] = @ + 1]
           /\ IF fail = "get"
              THEN /\ HandleFail(t, "ErrNoObject")
                   /\ UNCHANGED << hnd, txn >>
              ELSE /\ hnd' = [hnd EXCEPT ![t].mergedObjs = Append(@, o)]
                   /\ txn' = IF fail = "del" \/ WWConflict(t, o) THEN txn
                             ELSE [txn EXCEPT ![t].dropped = Append(@, o)]
                   /\ pc' = [pc EXCEPT ![t] = IF last THEN "h_create" ELSE "h_drop"]
                   /\ UNCHANGED raised
    /\ UNCHANGED << idxVars, schema, task, retErr, panicMsg, mergedObjs, mergedObjsHandle,
                    mergedBlkCnt, totalMergedBlkCnt, prepVars, ctxCancelled, phaseDesc,
                    phaseLog, engineArgs, writerCalls, commitEntry, createdBObjs, catalog >>

\* One pass of the loop over entry.MergedObjs: rel.GetObject, then
\* rel.SoftDeleteObject in the task's transaction.
HandleDrop(t, fail) ==
    /\ pc[t] = "h_drop"
    /\ LET i == Len(hnd[t].mergedObjs) + 1
           o == commitEntry[t].MergedObjs[i]
           last == i = Len(commitEntry[t].MergedObjs)
       IN  /\ catalogCalls' = [catalogCalls EXCEPT ![t] = @ + 1]
           /\ IF fail = "get"
              THEN /\ HandleFail(t, "ErrNoObject")
                   /\ UNCHANGED << hnd, txn >>
              ELSE /\ hnd' = [hnd EXCEPT ![t].mergedObjs = Append(@, o)]
                   /\ IF fail = "del" \/ WWConflict(t, o)
                      THEN /\ HandleFail(t, IF fail = "del" THEN "ErrSoftDelete"
                                                            ELSE "ErrWWConflict")
                           /\ UNCHANGED txn
                      ELSE /\ txn' = [txn EXCEPT ![t].dropped = Append(@, o)]
                           /\ pc' = [pc EXCEPT ![t] = IF last THEN "h_create" ELSE "h_drop"]
                           /\ UNCHANGED raised
    /\ UNCHANGED << idxVars, schema, task, retErr, panicMsg, mergedObjs, mergedObjsHandle,
                    mergedBlkCnt, totalMergedBlkCnt, prepVars, ctxCancelled, phaseDesc,
                    phaseLog, engineArgs, writerCalls, commitEntry, createdBObjs, catalog >>

\* objEntry.SetSorted() follows UpdateStats for every created object
SetSorted(sortkeyPos) == TRUE

\* One pass of the loop over entry.CreatedObjectStats:
\* rel.CreateNonAppendableObject, obj.UpdateStats, objEntry.SetSorted.
HandleCreate(t, fail) ==
    /\ pc[t] = "h_create"
    /\ Len(hnd[t].createdObjs) < Len(commitEntry[t].CreatedObjectStats)
    /\ LET stats == commitEntry[t].CreatedObjectStats[Len(hnd[t].createdObjs) + 1]
           bare == [id |-> stats.id, blocks |-> << >>, hasStats |-> FALSE, sorted |-> FALSE]
           full == [id |-> stats.id, blocks |-> stats.blocks, hasStats |-> TRUE,
                    sorted |-> SetSorted(engineArgs[t].sortkeyPos)]
       IN  CASE fail = "create" ->
                  /\ HandleFail(t, "ErrCreate")
                  /\ UNCHANGED << hnd, txn >>
             [] fail = "stats" ->
                  /\ HandleFail(t, "ErrStats")
                  /\ hnd' = [hnd EXCEPT ![t].createdObjs = Append(@, stats.id)]
                  /\ txn' = [txn EXCEPT ![t].created = Append(@, bare)]
             [] OTHER ->
                  /\ hnd' = [hnd EXCEPT ![t].createdObjs = Append(@, stats.id)]
                  /\ txn' = [txn EXCEPT ![t].created = Append(@, full)]
                  /\ UNCHANGED << raised, pc >>
    /\ UNCHANGED << idxVars, schema, taskVars, prepVars, ctxCancelled, phaseDesc, phaseLog,
                    engineArgs, writerCalls, commitEntry, createdBObjs, catalog >>

\* The entry built without entry.Booking
MergeObjectsEntryNoBooking(t) ==
    [DbID |-> commitEntry[t].DbID, TableID |-> commitEntry[t].TableID,
     merged |-> hnd[t].mergedObjs, created |-> hnd[t].createdObjs,
     booking |-> << >>]

\* The entry NewMergeObjectsEntry builds from the handler's locals
MergeObjectsEntry(t) ==
    [DbID |-> commitEntry[t].DbID, TableID |-> commitEntry[t].TableID,
     merged |-> hnd[t].mergedObjs, created |-> hnd[t].createdObjs,
     booking |-> commitEntry[t].Booking]

\* txnentries.NewMergeObjectsEntry and txn.LogTxnEntry; the handler then
\* returns createdObjs.
HandleLog(t, fail) ==
    /\ pc[t] = "h_create"
    /\ Len(hnd[t].createdObjs) = Len(commitEntry[t].CreatedObjectStats)
    /\ CASE fail = "entry" ->
              /\ HandleFail(t, "ErrEntry")
              /\ UNCHANGED txn
         [] fail = "log" ->
              /\ HandleFail(t, "ErrLog")
              /\ UNCHANGED txn
         [] OTHER ->
              /\ txn' = [txn EXCEPT ![t].log = Append(@, MergeObjectsEntry(t))]
              /\ pc' = [pc EXCEPT ![t] = "h_ret"]
              /\ UNCHANGED raised
    /\ UNCHANGED << idxVars, schema, taskVars, prepVars, ctxCancelled, phaseDesc, phaseLog,
                    engineArgs, writerCalls, commitEntry, createdBObjs, hnd, catalog >>

\* What HandleMergeEntryInTxn returns: createdObjs, or nil with an error
HandleResult(t) == IF raised[t].err = "nil" THEN hnd[t].createdObjs ELSE << >>

\* Execute after HandleMergeEntryInTxn has returned
ExecuteEnd(t) ==
    /\ pc[t] = "h_ret"
    /\ createdBObjs' = [createdBObjs EXCEPT ![t] = HandleResult(t)]
    /\ retErr' = [retErr EXCEPT ![t] = raised[t].err]
    /\ pc' = [pc EXCEPT ![t] = "done"]
    /\ UNCHANGED << idxVars, schema, task, panicMsg, mergedObjs, mergedObjsHandle, mergedBlkCnt,
                    totalMergedBlkCnt, catalogCalls, prepVars, ctxCancelled, phaseDesc,
                    phaseLog, raised, engineArgs, writerCalls, commitEntry, hnd, txn,
                    catalog >>

(* --------------------------- the transaction ---------------------------- *)

\* The caller commits the transaction of a task whose Execute returned nil:
\* the whole write set becomes visible at once.
Commit(t) ==
    /\ pc[t] = "done"
    /\ retErr[t] = "nil"
    /\ txn[t].state = "active"
    /\ catalog' = [deleted |-> catalog.deleted \cup
                                 { [obj |-> o, by |-> t] : o \in Range(txn[t].dropped) },
                   created |-> catalog.created \cup
                                 { [obj |-> c, by |-> t] : c \in Range(txn[t].created) },
                   log     |-> catalog.log \cup
                                 { [entry |-> e, by |-> t] : e \in Range(txn[t].log) }]
    /\ txn' = [txn EXCEPT ![t].state = "committed"]
    /\ UNCHANGED << idxVars, schema, pc, taskVars, prepVars, ctxCancelled, execVars, hnd >>

\* The caller rolls the transaction back: nothing of its write set is applied.
Rollback(t) ==
    /\ pc[t] \in {"done", "ctor_failed"}
    /\ txn[t].state = "active"
    /\ txn' = [txn EXCEPT ![t].state = "aborted"]
    /\ UNCHANGED << idxVars, schema, pc, taskVars, prepVars, ctxCancelled, execVars, hnd, catalog >>

Step(t) ==
    \/ Construct(t)
    \/ ExecuteBegin(t)
    \/ \E ok \in BOOLEAN : ReadBlock(t, ok)
    \/ \E mismatch \in BOOLEAN : BuildBatches(t, mismatch)
    \/ \E fail \in BOOLEAN : MergeAndWrite(t, fail)
    \/ CallRelease(t)
    \/ AfterDoMergeAndWrite(t)
    \/ Cancel(t)
    \/ \E fail \in {"none", "db", "rel"} : HandleOpen(t, fail)
    \/ \E fail \in {"none", "get", "del"} : HandleDrop(t, fail)
    \/ \E fail \in {"none", "create", "stats"} : HandleCreate(t, fail)
    \/ \E fail \in {"none", "entry", "log"} : HandleLog(t, fail)
    \/ ExecuteEnd(t)
    \/ Commit(t)
    \/ Rollback(t)

Next == Step(1)

Spec == Init /\ [][Next]_vars

\* Two merge tasks, each in its own transaction, over the same table.  Their
\* private steps run without injected failures; the conflicts come from the
\* transaction manager.
PairStep(t) ==
    \/ \E objs \in SrcLists :
          /\ Len(objs) > 0
          /\ Range(objs) \subseteq PairObjs
          /\ NewMergeObjectsTask(t, objs, "none", 0)
    \/ ExecuteBegin(t)
    \/ ReadBlock(t, TRUE)
    \/ BuildBatches(t, FALSE)
    \/ MergeAndWrite(t, FALSE)
    \/ CallRelease(t)
    \/ AfterDoMergeAndWrite(t)
    \/ HandleOpen(t, "none")
    \/ HandleDrop(t, "none")
    \/ HandleCreate(t, "none")
    \/ HandleLog(t, "none")
    \/ ExecuteEnd(t)
    \/ Commit(t)
    \/ Rollback(t)

InitPair == Init /\ schema.HasPK = schema.HasSortKey

NextPair == \E t \in Tasks : PairStep(t)

SpecPair == InitPair /\ [][NextPair]_vars

(* ====================== index-build operator =========================== *)

\* vm.NewCallResult(): the result a Call returns with an error
NewCallResult == [Status |-> "ExecNext", Batch |-> "nil"]

\* vm.CancelResult
CancelResult == [Status |-> "ExecStop", Batch |-> "nil"]

\* ctr.batch.RowCount(), 0 rows for the nil batch
RowCount(b) == IF b.nil THEN 0 ELSE b.rows

\* collectBuildBatches leaving its loop as soon as the accumulated rows reach
\* the limit
CollectStopsAtLimit(b) == RowCount(b) >= rfSpec.UpperLimit

\* collectBuildBatches: "for index build, can exit early"
CollectStopsEarly(b) == RowCount(b) > rfSpec.UpperLimit

\* Call keeping on after a failed build
AfterBuildIgnoringErr(err) == "HandleRuntimeFilter"

\* Call, case ReceiveBatch: the state after ctr.build returned err
AfterBuild(err) == IF err /= "nil" THEN ctrState ELSE "HandleRuntimeFilter"

\* sendFilter and Call leaving the state where it was
StateAfterSendStays == "HandleRuntimeFilter"

\* sendFilter sets End in both cases of its select, Call again when
\* handleRuntimeFilter returns nil
StateAfterSend == "End"

\* a select without the case of the cancelled context
CtxDoneNeverSelected == FALSE

\* sendFilter: case <-proc.Ctx.Done()
CtxDoneSelectable == procCtxDone

\* the filter handleRuntimeFilter builds from the accumulated batch; "panic"
\* and "marshal" name the two ways that build no filter.  Card is
\* int32(vec.Length()), the row count of a batch of at most
\* MaxRecv * MaxBatchRows rows.
RuntimeFilterOf(b, marshalOk) ==
    IF ~rfSpec.Expr THEN [Typ |-> "PASS", Card |-> 0]
    ELSE IF b.nil \/ RowCount(b) = 0 THEN [Typ |-> "DROP", Card |-> 0]
    ELSE IF RowCount(b) > rfSpec.UpperLimit THEN [Typ |-> "PASS", Card |-> 0]
    ELSE IF idxVecs /= 1 THEN [Typ |-> "panic", Card |-> 0]
    ELSE IF ~marshalOk THEN [Typ |-> "marshal", Card |-> 0]
    ELSE [Typ |-> "IN", Card |-> RowCount(b)]

idxGhosts == << idxRecv, idxInPuts, accPuts, idxEarlyStop, idxSawNil, idxErrs,
                idxRowsAtFilter >>

\* Prepare
Prepare(nSenders, nReceivers) ==
    /\ idxPc = "new"
    /\ IF nSenders = 0
       THEN /\ idxPc' = "panicked"
            /\ idxErrs' = idxErrs \cup {"panic"}
            /\ UNCHANGED << isMerge, ctrState, ctrBatch >>
       ELSE /\ idxPc' = "idle"
            /\ isMerge' = (nReceivers > 1)
            /\ ctrState' = "ReceiveBatch"
            /\ ctrBatch' = NilBatch
            /\ UNCHANGED idxErrs
    /\ UNCHANGED << mergeVars, rfSpec, idxVecs, callRet, pendingFilter, chanMsgs,
                    chanReady, procCtxDone, idxRecv, idxInPuts, accPuts,
                    idxEarlyStop, idxSawNil, idxRowsAtFilter >>

\* Call up to its loop: vm.CancelCheck
CallBegin ==
    /\ idxPc = "idle"
    /\ IF procCtxDone
       THEN /\ callRet' = [Status |-> CancelResult.Status,
                           Batch |-> CancelResult.Batch, Err |-> "ErrCtx"]
            /\ UNCHANGED idxPc
       ELSE /\ idxPc' = "loop"
            /\ UNCHANGED callRet
    /\ UNCHANGED << mergeVars, rfSpec, idxVecs, isMerge, ctrState, ctrBatch,
                    pendingFilter, chanMsgs, chanReady, procCtxDone, idxGhosts >>

\* Call, case ReceiveBatch: one turn of the loop of collectBuildBatches.
\* in is what the receiver delivers: "err", "nil" (end of input) or a
\* "batch" of the given rows; appendOk is the outcome of AppendWithCopy and keepOnErr
\* says which of the batches AppendWithCopy may return with its error
\* (nil or the accumulated one) it returns.
CollectBuildBatch(in, rows, appendOk, keepOnErr) ==
    /\ idxPc = "loop"
    /\ ctrState = "ReceiveBatch"
    /\ CASE in = "err" ->
              /\ ctrState' = AfterBuild("ErrRecv")
              /\ callRet' = [Status |-> NewCallResult.Status,
                             Batch |-> NewCallResult.Batch, Err |-> "ErrRecv"]
              /\ idxPc' = "idle"
              /\ idxErrs' = idxErrs \cup {"recv"}
              /\ UNCHANGED << ctrBatch, idxRecv, idxInPuts, idxEarlyStop, idxSawNil >>
         [] in = "nil" ->
              /\ ctrState' = AfterBuild("nil")
              /\ idxSawNil' = TRUE
              /\ UNCHANGED << ctrBatch, callRet, idxPc, idxErrs, idxRecv,
                              idxInPuts, idxEarlyStop >>
         [] rows = 0 ->
              /\ idxRecv < MaxRecv
              /\ idxRecv' = idxRecv + 1
              /\ idxInPuts' = Append(idxInPuts, 1)
              /\ UNCHANGED << ctrState, ctrBatch, callRet, idxPc, idxErrs,
                              idxEarlyStop, idxSawNil >>
         [] OTHER ->
              /\ idxRecv < MaxRecv
              /\ idxRecv' = idxRecv + 1
              /\ IF appendOk
                 THEN LET b == [nil |-> FALSE, rows |-> RowCount(ctrBatch) + rows]
                      IN  /\ ctrBatch' = b
                          /\ idxInPuts' = Append(idxInPuts, 1)
                          /\ IF CollectStopsEarly(b)
                             THEN /\ ctrState' = AfterBuild("nil")
                                  /\ idxEarlyStop' = TRUE
                             ELSE UNCHANGED << ctrState, idxEarlyStop >>
                          /\ UNCHANGED << callRet, idxPc, idxErrs, idxSawNil >>
                 ELSE /\ ctrBatch' = IF keepOnErr THEN ctrBatch ELSE NilBatch
                      /\ idxInPuts' = Append(idxInPuts, 0)
                      /\ ctrState' = AfterBuild("ErrAppend")
                      /\ callRet' = [Status |-> NewCallResult.Status,
                                     Batch |-> NewCallResult.Batch,
                                     Err |-> "ErrAppend"]
                      /\ idxPc' = "idle"
                      /\ idxErrs' = idxErrs \cup {"append"}
                      /\ UNCHANGED << idxEarlyStop, idxSawNil >>
    /\ UNCHANGED << mergeVars, rfSpec, idxVecs, isMerge, pendingFilter, chanMsgs,
                    chanReady, procCtxDone, accPuts, idxRowsAtFilter >>

\* Call, case HandleRuntimeFilter: handleRuntimeFilter up to the select of
\* sendFilter
HandleRuntimeFilter(marshalOk) ==
    /\ idxPc = "loop"
    /\ ctrState = "HandleRuntimeFilter"
    /\ LET f == RuntimeFilterOf(ctrBatch, marshalOk)
       IN  CASE f.Typ = "panic" ->
                  /\ idxPc' = "panicked"
                  /\ idxErrs' = idxErrs \cup {"panic"}
                  /\ UNCHANGED << callRet, pendingFilter, idxRowsAtFilter >>
             [] f.Typ = "marshal" ->
                  /\ idxPc' = "idle"
                  /\ callRet' = [Status |-> NewCallResult.Status,
                                 Batch |-> NewCallResult.Batch,
                                 Err |-> "ErrMarshal"]
                  /\ idxErrs' = idxErrs \cup {"marshal"}
                  /\ UNCHANGED << pendingFilter, idxRowsAtFilter >>
             [] OTHER ->
                  /\ idxPc' = "send"
                  /\ pendingFilter' = f
                  /\ idxRowsAtFilter' = RowCount(ctrBatch)
                  /\ UNCHANGED << callRet, idxErrs >>
    /\ UNCHANGED << mergeVars, rfSpec, idxVecs, isMerge, ctrState, ctrBatch,
                    chanMsgs, chanReady, procCtxDone, idxRecv, idxInPuts,
                    accPuts, idxEarlyStop, idxSawNil >>

\* sendFilter: case ap.RuntimeFilterSenders[0].Chan <- runtimeFilter
SendFilterChan ==
    /\ idxPc = "send"
    /\ chanReady
    /\ chanMsgs' = Append(chanMsgs, pendingFilter)
    /\ chanReady' = FALSE
    /\ ctrState' = StateAfterSend
    /\ idxPc' = "loop"
    /\ UNCHANGED << mergeVars, rfSpec, idxVecs, isMerge, ctrBatch, callRet,
                    pendingFilter, procCtxDone, idxGhosts >>

\* sendFilter: case <-proc.Ctx.Done()
SendFilterCtxDone ==
    /\ idxPc = "send"
    /\ CtxDoneSelectable
    /\ ctrState' = StateAfterSend
    /\ idxPc' = "loop"
    /\ UNCHANGED << mergeVars, rfSpec, idxVecs, isMerge, ctrBatch, callRet,
                    pendingFilter, chanMsgs, chanReady, procCtxDone, idxGhosts >>

\* Call, default case of the switch
CallEnd ==
    /\ idxPc = "loop"
    /\ ctrState = "End"
    /\ IF ~ctrBatch.nil
       THEN /\ accPuts' = accPuts + 1
            /\ ctrBatch' = NilBatch
       ELSE UNCHANGED << accPuts, ctrBatch >>
    /\ callRet' = [Status |-> "ExecStop", Batch |-> "nil", Err |-> "nil"]
    /\ idxPc' = "idle"
    /\ UNCHANGED << mergeVars, rfSpec, idxVecs, isMerge, ctrState, pendingFilter,
                    chanMsgs, chanReady, procCtxDone, idxRecv, idxInPuts,
                    idxEarlyStop, idxSawNil, idxErrs, idxRowsAtFilter >>

\* the process context is cancelled
CancelProc ==
    /\ idxPc /= "new"
    /\ ~procCtxDone
    /\ procCtxDone' = TRUE
    /\ UNCHANGED << mergeVars, rfSpec, idxVecs, idxPc, isMerge, ctrState,
                    ctrBatch, callRet, pendingFilter, chanMsgs, chanReady,
                    idxGhosts >>

\* the consumer of the runtime filter gets ready to take a message
ChanGetsReady ==
    /\ idxPc /= "new"
    /\ ~chanReady
    /\ chanReady' = TRUE
    /\ UNCHANGED << mergeVars, rfSpec, idxVecs, idxPc, isMerge, ctrState,
                    ctrBatch, callRet, pendingFilter, chanMsgs, procCtxDone,
                    idxGhosts >>

InitIdx ==
    /\ MergeInit
    /\ schema = [HasPK |-> TRUE, HasSortKey |-> TRUE]
    /\ rfSpec \in [Expr : BOOLEAN, UpperLimit : 0..MaxUpperLimit]
    /\ idxVecs \in {1, 2}
    /\ IdxNew

\* the steps of the operator and of the pipeline calling it
IdxRun ==
    \/ \E nSenders \in {0, 1}, nReceivers \in {1, 2} : Prepare(nSenders, nReceivers)
    \/ CallBegin
    \/ \E in \in {"err", "nil", "batch"}, rows \in 0..MaxBatchRows,
          appendOk \in BOOLEAN, keepOnErr \in BOOLEAN :
          /\ in /= "batch" => rows = 0
          /\ rows = 0 => appendOk
          /\ appendOk => keepOnErr
          /\ CollectBuildBatch(in, rows, appendOk, keepOnErr)
    \/ \E marshalOk \in BOOLEAN : HandleRuntimeFilter(marshalOk)
    \/ SendFilterChan
    \/ SendFilterCtxDone
    \/ CallEnd

NextIdx ==
    \/ IdxRun
    \/ CancelProc
    \/ ChanGetsReady

SpecIdx == InitIdx /\ [][NextIdx]_vars

\* What the operator does on its own: the pipeline calls it until a Call
\* returns an error or ExecStop, a goroutine inside Call runs on, the receiver
\* delivers the next batch or the end of the input, and the select of
\* sendFilter takes a case that is ready.
IdxProgress ==
    \/ IdxRun /\ idxPc /= "idle"
    \/ CallBegin /\ callRet.Err = "nil" /\ callRet.Status /= "ExecStop"

SpecIdxFair == SpecIdx /\ WF_vars(IdxProgress)

(* ================================ claims ================================ *)

Finished(t) == pc[t] = "done"

Acquired(t) == { k \in 1..Len(views[t]) : views[t][k] /= NilView }

\* C1: in every execution (success, failure, panic inside PrepareData,
\* cancellation, the release function called more than once) every view that
\* PrepareData acquired is closed exactly once: never twice, and once the task
\* has ended, once.
C1_EveryViewClosedExactlyOnce ==
    \A t \in Tasks : \A k \in 1..Len(views[t]) :
        /\ closeCnt[t][k] <= 1
        /\ (Finished(t) \/ pc[t] = "panicked") =>
               closeCnt[t][k] = (IF k \in Acquired(t) THEN 1 ELSE 0)

\* C2: when the read at global offset k fails, PrepareData returns with every
\* view acquired before k closed (once), no other view open, and with no
\* batches, no masks and no release function.
C2_ReadFailureReleasesAcquired ==
    \A t \in Tasks :
        prepRet[t].err /= "nil" =>
            /\ Acquired(t) = 1..(readCnt[t] - 1)
            /\ \A k \in 1..Len(views[t]) :
                   closeCnt[t][k] = (IF k \in Acquired(t) THEN 1 ELSE 0)
            /\ prepRet[t].batches = << >>
            /\ prepRet[t].dels = << >>
            /\ ~prepRet[t].release

C2_Witness ==
    /\ prepRet[1].err = "ErrRead"
    /\ readCnt[1] = 3
    /\ Acquired(1) = {1, 2}
    /\ closeCnt[1] = << 1, 1, 0 >>

DeletedBy(t) == { d.obj : d \in { x \in catalog.deleted : x.by = t } }

CreatedBy(t) == { c.obj : c \in { x \in catalog.created : x.by = t } }

LoggedBy(t) == { l.entry : l \in { x \in catalog.log : x.by = t } }

StatsIds(t) == [n \in 1..Len(commitEntry[t].CreatedObjectStats) |->
                   commitEntry[t].CreatedObjectStats[n].id]

\* C3: the catalog effects of a merge are all-or-nothing.  Nothing of a
\* transaction that has not committed (still active, or rolled back after
\* HandleMergeEntryInTxn failed at any step) is in the catalog: no soft-delete,
\* no created object, no log entry.  Once it has committed, every source
\* object is soft-deleted, every created object is there with its statistics,
\* and its one log entry is there.
C3_CatalogAllOrNothing ==
    \A t \in Tasks :
        /\ txn[t].state /= "committed" =>
               DeletedBy(t) = {} /\ CreatedBy(t) = {} /\ LoggedBy(t) = {}
        /\ txn[t].state = "committed" =>
               /\ DeletedBy(t) = Range(mergedObjs[t])
               /\ { c.id : c \in CreatedBy(t) } = Range(StatsIds(t))
               /\ \A c \in CreatedBy(t) : c.hasStats
               /\ Cardinality(LoggedBy(t)) = 1

C3_Witness ==
    /\ txn[1].state = "aborted"
    /\ raised[1].err = "ErrSoftDelete"
    /\ Len(txn[1].dropped) = 1
    /\ Len(mergedObjs[1]) = 2

\* C4: of two merge tasks in separate transactions whose source-object sets
\* share an object, at most one commits.
C4_OverlappingMergesDoNotBothCommit ==
    (txn[1].state = "committed" /\ txn[2].state = "committed") =>
        Range(mergedObjs[1]) \cap Range(mergedObjs[2]) = {}

C4_Witness ==
    /\ Range(mergedObjs[1]) \cap Range(mergedObjs[2]) /= {}
    /\ Len(txn[1].dropped) = 1
    /\ Len(mergedObjs[1]) = 2
    /\ raised[1].err = "ErrWWConflict"
    /\ txn[1].state = "aborted"
    /\ txn[2].state = "committed"

\* two tasks over disjoint source-object sets have both committed
BothCommitted ==
    /\ txn[1].state = "committed"
    /\ txn[2].state = "committed"
    /\ Range(mergedObjs[1]) \cap Range(mergedObjs[2]) = {}

\* a task was constructed with an empty source-object list
EmptyCtor(t) == pc[t] /= "idle" /\ mergedObjs[t] = << >>

Phases == << "PrepareData", "MergeAndWrite", "HandleMergeEntryInTxn" >>

\* C6: Execute runs data read, merge-and-write and catalog application in
\* that order, each at most once; the catalog application starts only after
\* merge-and-write returned without error; after a failure no later phase
\* starts, phaseDesc names the failing phase, and Execute returns the very
\* error that was raised.
C6_PhasesInOrder ==
    \A t \in Tasks :
        /\ Len(phaseLog[t]) <= 3
        /\ phaseLog[t] = SubSeq(Phases, 1, Len(phaseLog[t]))
        /\ readCnt[t] <= totalMergedBlkCnt[t]
        /\ Len(phaseLog[t]) = 3 =>
               /\ prepRet[t].err = "nil"
               /\ raised[t].phase /= "1-DoMergeAndWrite"
               /\ Len(writerCalls[t]) = Len(commitEntry[t].CreatedObjectStats)
        /\ raised[t].err = "ErrRead" => Len(phaseLog[t]) = 1
        /\ raised[t].err \in {"ErrWrite", "ErrCanceled"} =>
               Len(phaseLog[t]) = 2 /\ raised[t].phase = "1-DoMergeAndWrite"
        /\ (raised[t].err /= "nil" /\ Len(phaseLog[t]) = 3) =>
               raised[t].phase = "2-HandleMergeEntryInTxn"
        /\ Finished(t) =>
               /\ retErr[t] = raised[t].err
               /\ retErr[t] /= "nil" => phaseDesc[t] = raised[t].phase
               /\ retErr[t] = "nil" => Len(phaseLog[t]) = 3

C6_Witness ==
    /\ pc[1] = "done"
    /\ retErr[1] = "ErrWrite"
    /\ phaseLog[1] = << "PrepareData", "MergeAndWrite" >>
    /\ phaseDesc[1] = "1-DoMergeAndWrite"

RECURSIVE Flatten(_)
Flatten(blocks) ==
    IF blocks = << >> THEN << >> ELSE Head(blocks) \o Flatten(Tail(blocks))

NonDecreasing(s) == \A i \in 1..(Len(s) - 1) : s[i] <= s[i + 1]

\* C7: every created object that the catalog applier has marked sorted has
\* its rows in non-decreasing key order across the whole object, for tables
\* with a sort key and for tables without one (whose output is the plain
\* concatenation of the source blocks).
C7_SortedMarkMeansOrdered ==
    \A t \in Tasks : \A n \in 1..Len(txn[t].created) :
        txn[t].created[n].sorted =>
            NonDecreasing(Flatten(txn[t].created[n].blocks))

KeyVals == UNION { Range(ObjBlocks(o)[j].rows) : <<o, j>> \in { p \in Objs \X (1..3) : p[2] <= BlockCnt(p[1]) } }

\* how many visible rows with key v the source objects of task t hold
SrcVisibleCount(t, v) ==
    Cardinality({ p \in (1..Len(mergedObjs[t])) \X (1..3) \X (1..3) :
        LET blocks == ObjBlocks(mergedObjs[t][p[1]])
        IN  /\ p[2] <= Len(blocks)
            /\ p[3] <= Len(blocks[p[2]].rows)
            /\ p[3] \notin blocks[p[2]].del
            /\ blocks[p[2]].rows[p[3]] = v })

\* how many rows with key v the objects created by task t hold
CreatedCount(t, v) ==
    Cardinality({ p \in (1..Len(txn[t].created)) \X (1..6) \X (1..6) :
        LET blocks == txn[t].created[p[1]].blocks
        IN  /\ p[2] <= Len(blocks)
            /\ p[3] <= Len(blocks[p[2]])
            /\ blocks[p[2]][p[3]] = v })

\* every block of every source object of task t, in order
RECURSIVE AllBlocks(_, _)
AllBlocks(objs, i) ==
    IF i > Len(objs) THEN << >>
    ELSE [j \in 1..BlockCnt(objs[i]) |-> [obj |-> objs[i], blk |-> j - 1]]
         \o AllBlocks(objs, i + 1)

\* C8: after a successful merge the created objects hold exactly the visible
\* rows of the source blocks, as a multiset: every block of every source
\* object went to the merge once, with its own delete mask.
C8_Lossless ==
    \A t \in Tasks :
        (Finished(t) /\ retErr[t] = "nil") =>
            /\ prepRet[t].batches = AllBlocks(mergedObjs[t], 1)
            /\ prepRet[t].dels = AllBlocks(mergedObjs[t], 1)
            /\ readLog[t] = AllBlocks(mergedObjs[t], 1)
            /\ \A v \in KeyVals : CreatedCount(t, v) = SrcVisibleCount(t, v)

C8_Witness ==
    /\ pc[1] = "done"
    /\ retErr[1] = "nil"
    /\ mergedObjs[1] = << 2, 1 >>
    /\ Len(txn[1].created) = 2
    /\ CreatedCount(1, 3) = 2

\* C9: after the context is cancelled no further block read is started.
C9_NoReadAfterCancel ==
    [][\A t \in Tasks : ctxCancelled[t] => readCnt'[t] = readCnt[t]]_vars

\* C10: a successful HandleMergeEntryInTxn has appended exactly one log entry
\* to the transaction, with the entry's database and table id, all source
\* objects, all created objects and the booking, and returns one created
\* object per created-object statistics entry, in order; a failing one has
\* appended no log entry and returns no created object.
C10_OneLogEntryPerSuccess ==
    \A t \in Tasks :
        /\ pc[t] \in {"h_ret", "done"} =>
               IF raised[t].err = "nil"
               THEN /\ Len(txn[t].log) = 1
                    /\ txn[t].log[1] = [DbID |-> DbID, TableID |-> TableID,
                                        merged |-> mergedObjs[t],
                                        created |-> StatsIds(t),
                                        booking |-> commitEntry[t].Booking]
                    /\ HandleResult(t) = StatsIds(t)
               ELSE txn[t].log = << >> /\ HandleResult(t) = << >>
        /\ Finished(t) => createdBObjs[t] = HandleResult(t)
        /\ ~Finished(t) => createdBObjs[t] = << >>
        /\ pc[t] \notin {"h_ret", "done"} => txn[t].log = << >>

C10_Witness ==
    /\ pc[1] = "done"
    /\ retErr[1] = "nil"
    /\ Len(createdBObjs[1]) = 2
    /\ Len(txn[1].log) = 1
    /\ Len(txn[1].log[1].booking) = 4

\* the blocks of the first i source objects of a list, counted one by one
BlocksBefore(objs, i) ==
    Cardinality({ p \in (1..Len(objs)) \X (1..3) : p[1] < i /\ p[2] <= BlockCnt(objs[p[1]]) })

\* C11: the task numbers the blocks globally: object i's blocks occupy the
\* offsets from the block count of the objects before it, the ranges are
\* disjoint and cover 0..totalMergedBlkCnt-1, and a successful PrepareData
\* returns totalMergedBlkCnt batches and masks with block j of object i at
\* offset prefix(i)+j, also when source objects have no block.
C11_GlobalBlockOffsets ==
    \A t \in Tasks :
        LET objs == mergedObjs[t]
            n == Len(objs)
            lo(i) == mergedBlkCnt[t][i]
            hi(i) == mergedBlkCnt[t][i] + BlockCnt(objs[i])
        IN  n > 0 =>
            /\ Len(mergedBlkCnt[t]) = n
            /\ \A i \in 1..n : lo(i) = BlocksBefore(objs, i)
            /\ totalMergedBlkCnt[t] = BlocksBefore(objs, n + 1)
            /\ \A k \in 0..(totalMergedBlkCnt[t] - 1) :
                   Cardinality({ i \in 1..n : lo(i) <= k /\ k < hi(i) }) = 1
            /\ \A i \in 1..n : hi(i) <= totalMergedBlkCnt[t]
            /\ prepRet[t].release =>
                   /\ Len(prepRet[t].batches) = totalMergedBlkCnt[t]
                   /\ Len(prepRet[t].dels) = totalMergedBlkCnt[t]
                   /\ \A i \in 1..n : \A j \in 0..(BlockCnt(objs[i]) - 1) :
                          /\ prepRet[t].batches[lo(i) + j + 1] = [obj |-> objs[i], blk |-> j]
                          /\ prepRet[t].dels[lo(i) + j + 1] = [obj |-> objs[i], blk |-> j]

C11_Witness ==
    /\ mergedObjs[1] = << 4, 1 >>
    /\ mergedBlkCnt[1] = << 0, 0 >>
    /\ prepRet[1].release
    /\ Len(prepRet[1].batches) = 2

\* C12: when construction fails on the database, the relation or a source
\* object lookup, the constructor returns the error and no task: a task is
\* returned only together with a nil error.
C12_FailedCtorReturnsNoTask ==
    \A t \in Tasks :
        /\ pc[t] = "ctor_failed" => retErr[t] /= "nil" /\ task[t] = "nil"
        /\ (task[t] = "task" /\ pc[t] \in {"ctor_failed", "built"}) => retErr[t] = "nil"

\* the source objects of a list without a visible row
NoVisibleRow(o) ==
    \A j \in 1..BlockCnt(o) :
        \A r \in 1..Len(ObjBlocks(o)[j].rows) : r \in ObjBlocks(o)[j].del

FullyTombstoned(o) == BlockCnt(o) > 0 /\ NoVisibleRow(o)

\* a successful merge, without sort key, of two source objects of which one is
\* fully tombstoned
C13_Case(t) ==
    /\ Finished(t)
    /\ retErr[t] = "nil"
    /\ engineArgs[t].sortkeyPos = -1
    /\ Len(mergedObjs[t]) = 2
    /\ \E i \in 1..2 : FullyTombstoned(mergedObjs[t][i])

\* C13 as stated: such a merge creates no object, soft-deletes both sources
\* and logs one entry with no created-object statistics.
C13_TombstonedPairCreatesNothing ==
    \A t \in Tasks :
        C13_Case(t) =>
            /\ commitEntry[t].CreatedObjectStats = << >>
            /\ txn[t].created = << >>
            /\ Range(txn[t].dropped) = Range(mergedObjs[t])
            /\ Len(txn[t].log) = 1
            /\ txn[t].log[1].created = << >>

\* C13 as amended: such a merge creates no object exactly when the other
\* source object has no visible row either (otherwise the created objects
\* hold the other object's visible rows); both sources are soft-deleted and
\* the one log entry records exactly the created objects.
C13_TombstonedPairCreatesOnlyVisible ==
    \A t \in Tasks :
        C13_Case(t) =>
            /\ (commitEntry[t].CreatedObjectStats = << >>) <=>
                   (\A i \in 1..2 : NoVisibleRow(mergedObjs[t][i]))
            /\ Len(txn[t].created) = Len(commitEntry[t].CreatedObjectStats)
            /\ \A v \in KeyVals : CreatedCount(t, v) = SrcVisibleCount(t, v)
            /\ txn[t].dropped = mergedObjs[t]
            /\ Len(txn[t].log) = 1
            /\ txn[t].log[1].created = StatsIds(t)
            /\ txn[t].log[1].merged = mergedObjs[t]

C13_Witness ==
    /\ C13_Case(1)
    /\ mergedObjs[1] = << 3, 4 >>
    /\ txn[1].created = << >>
    /\ txn[1].dropped = << 3, 4 >>
    /\ Len(txn[1].log) = 1
    /\ txn[1].log[1].created = << >>

\* C14: the commit entry holds one merged-object entry per source object, in
\* the order given at construction, so after a successful Execute the objects
\* soft-deleted in the transaction are exactly the source objects, each once.
C14_CommitEntryNamesEverySource ==
    \A t \in Tasks :
        /\ commitEntry[t] /= NoEntry => commitEntry[t].MergedObjs = mergedObjs[t]
        /\ Range(txn[t].dropped) \subseteq Range(mergedObjs[t])
        /\ (Finished(t) /\ retErr[t] = "nil") => txn[t].dropped = mergedObjs[t]

C14_Witness ==
    /\ pc[1] = "done"
    /\ retErr[1] = "nil"
    /\ txn[1].dropped = << 2, 1 >>
    /\ commitEntry[1].MergedObjs = << 2, 1 >>

Rank(st) == CASE st = "ReceiveBatch" -> 0 [] st = "HandleRuntimeFilter" -> 1 [] OTHER -> 2

ExecStopOk == [Status |-> "ExecStop", Batch |-> "nil", Err |-> "nil"]

\* this step is a Call, past its cancel check, returning
CheckedCallReturns == idxPc = "loop" /\ idxPc' = "idle"

\* this step is a Call returning at its cancel check
CancelledCallReturns == idxPc = "idle" /\ idxPc' = "idle" /\ callRet' /= callRet

\* the state moves forward one stage at a time, and a Call returning an error
\* of build or handleRuntimeFilter leaves it where it was
C16_Forward ==
    /\ Rank(ctrState') >= Rank(ctrState)
    /\ Rank(ctrState') <= Rank(ctrState) + 1
    /\ (CheckedCallReturns /\ callRet'.Err /= "nil") =>
           /\ ctrState' = ctrState
           /\ callRet'.Err \in {"ErrRecv", "ErrAppend", "ErrMarshal"}
    /\ (CheckedCallReturns /\ ctrState /= "End") => callRet'.Err /= "nil"

\* C16 as stated: the container state only advances ReceiveBatch ->
\* HandleRuntimeFilter -> End; an error of build or handleRuntimeFilter leaves
\* the state unchanged and is returned; once the state is End every Call
\* returns ExecStop with a nil batch and a nil error.
C16_EveryCallAtEndStops ==
    [][ /\ C16_Forward
        /\ (ctrState = "End" /\ (CheckedCallReturns \/ CancelledCallReturns)) =>
               callRet' = ExecStopOk ]_vars

\* C16 as amended: the same, but at End only a Call that passes the cancel
\* check returns ExecStop with a nil batch and a nil error; a Call made after
\* the context was cancelled returns the cancel result with the context's
\* error and leaves the state unchanged.
C16_CheckedCallAtEndStops ==
    [][ /\ C16_Forward
        /\ (ctrState = "End" /\ CheckedCallReturns) => callRet' = ExecStopOk
        /\ CancelledCallReturns =>
               /\ procCtxDone
               /\ callRet' = [Status |-> "ExecStop", Batch |-> "nil", Err |-> "ErrCtx"]
               /\ ctrState' = ctrState ]_vars

C16_Witness ==
    /\ ctrState = "End"
    /\ idxPc = "idle"
    /\ callRet = ExecStopOk
    /\ "recv" \in idxErrs
    /\ "marshal" \in idxErrs

\* C17: at most one runtime filter message is ever sent on the channel, and
\* when the operator has reached End either exactly one was sent or the
\* context was cancelled and none was sent.
C17_AtMostOneFilter ==
    /\ Len(chanMsgs) <= 1
    /\ ctrState = "End" =>
           \/ Len(chanMsgs) = 1
           \/ procCtxDone /\ Len(chanMsgs) = 0

C17_Witness ==
    /\ ctrState = "End"
    /\ Len(chanMsgs) = 1
    /\ procCtxDone
    /\ callRet.Err = "ErrCtx"

\* C18: an IN filter is sent only with a filter expression, after the input
\* was consumed to its end without early stop, with 1..UpperLimit accumulated
\* rows and Card equal to that count; after an early stop the filter sent is
\* PASS, without expression it is PASS, and with an expression and no
\* accumulated row it is DROP.
C18_FilterKind ==
    \A k \in 1..Len(chanMsgs) :
        LET m == chanMsgs[k]
        IN  /\ m.Typ \in {"PASS", "DROP", "IN"}
            /\ m.Typ = "IN" =>
                   /\ rfSpec.Expr
                   /\ idxSawNil /\ ~idxEarlyStop
                   /\ 1 <= idxRowsAtFilter /\ idxRowsAtFilter <= rfSpec.UpperLimit
                   /\ m.Card = idxRowsAtFilter
            /\ idxEarlyStop => m.Typ = "PASS"
            /\ ~rfSpec.Expr => m.Typ = "PASS"
            /\ (rfSpec.Expr /\ idxRowsAtFilter = 0) => m.Typ = "DROP"

C18_Witness ==
    /\ chanMsgs = << [Typ |-> "IN", Card |-> 2] >>
    /\ idxRecv = 2
    /\ idxSawNil
    /\ rfSpec.UpperLimit = 2

\* C19: every input batch received by collectBuildBatches is returned to the
\* pool exactly once on every exit path, a failed AppendWithCopy included, and
\* the accumulated batch is returned at most once.
C19_EveryInputBatchPutOnce ==
    /\ Len(idxInPuts) = idxRecv
    /\ \A k \in 1..Len(idxInPuts) : idxInPuts[k] = 1
    /\ accPuts <= 1

\* a Call has reached End and returned ExecStop
ReachedEnd == ctrState = "End" /\ callRet = ExecStopOk

====
